---- MODULE Spec2Model ----
(***************************************************************************)
(* ts-monads: the Either and Maybe containers of src/src/Either.ts and     *)
(* src/src/Maybe.ts.                                                       *)
(*                                                                         *)
(* Instances live in a heap (a sequence of objects; a reference is an      *)
(* index), so that "returns fn's result directly" and "produces a new      *)
(* instance" are different outcomes.  Every method is an operator from the *)
(* heap, the receiver and the arguments to the new heap, the outcome       *)
(* (a reference, a plain value or a thrown error) and the list of callback *)
(* invocations it made.  One action per public entry point applies the     *)
(* operator and records the call, its outcome and the invocations.         *)
(* The variable law holds the inputs and the progress of a run that        *)
(* evaluates the two sides of an algebraic law.                            *)
(***************************************************************************)
EXTENDS Naturals, Sequences, FiniteSets

VARIABLES heap, last, res, log, law

vars == <<heap, last, res, log, law>>

(* ---------------------------- bounds ---------------------------------- *)

\* A run of single calls goes on while fewer than MaxObjs instances exist
\* (the runs that evaluate a law allocate what the law needs).
MaxObjs == 3

(* ------------------------- JavaScript values -------------------------- *)

Null == "null"
Undefined == "undefined"

\* Payloads: the number 0 (falsy), the string "e", the number 42, the empty
\* string (falsy) and the booleans.
Zero == "num:0"
StrE == "str:e"
FortyTwo == "num:42"
Empty == "str:"
False == "bool:false"
True == "bool:true"

Payload == {Zero, StrE, FortyTwo, Empty, False}

\* The JavaScript string with the characters s.
Str(s) == "str:" \o s

\* The JavaScript boolean of a condition.
Bool(b) == IF b THEN True ELSE False

\* String(v), the conversion a template literal applies to v.
JsString(v) ==
    CASE v = Zero -> "0"
      [] v = StrE -> "e"
      [] v = FortyTwo -> "42"
      [] v = Empty -> ""
      [] v = False -> "false"
      [] v = True -> "true"
      [] v = Null -> "null"
      [] v = Undefined -> "undefined"

Val == Payload \cup {Null, Undefined}

\* Error objects a caller's callback can throw (distinct identities).
Err1 == "Error#1"
Err2 == "Error#2"

Errors == {Err1, Err2}

\* What one invocation of a caller-supplied function can do: return a value
\* or throw an error.
CbRes == Val \cup Errors

\* The caller-supplied functions the runs draw from: every constant function
\* (returning a payload, null or undefined, or throwing), the identity and a
\* function that moves every payload to another one.
Ident == [v \in Payload |-> v]

Rot == [v \in Payload |-> CASE v = Zero -> FortyTwo [] v = FortyTwo -> StrE [] OTHER -> Zero]

Fns == {[v \in Payload |-> c] : c \in CbRes} \cup {Ident, Rot}

\* Pure functions defined on every value (null and undefined included), for
\* the runs that compose two functions:  x => x,  a function that moves every
\* payload to another one,  x => x ?? 42,  x => (x === 0 ? null : x)  and
\* constant functions.
VIdent == [x \in Val |-> x]

VRot == [x \in Val |-> IF x \in Payload THEN Rot[x] ELSE x]

VOrElse == [x \in Val |-> IF x = Null \/ x = Undefined THEN FortyTwo ELSE x]

VZeroToNull == [x \in Val |-> IF x = Zero THEN Null ELSE x]

PureFns ==
    {VIdent, VRot, VOrElse, VZeroToNull}
        \cup {[x \in Val |-> c] : c \in {Null, Undefined, Zero, StrE}}

\* x => g(f(x))
Compose(f, g) == [x \in Val |-> g[f[x]]]

\* The values the Either runs are made with: three payloads (a falsy number,
\* a string, a number) and the two absent values.
EitherVal == {Zero, StrE, FortyTwo, Null, Undefined}

\* The functions handed to Either's methods: those of Fns that keep the
\* payloads of the Either runs among themselves.
EitherMapFns ==
    {f \in Fns : \A v \in EitherVal \cap Payload : f[v] \in EitherVal \cup Errors}

\* What a zero-argument supplier does when it is invoked: it returns a value
\* or throws an error.
Suppliers == {Zero, FortyTwo, Null, Err1}

\* The branch functions fold is run with.
FoldFns == {Ident, Rot, [v \in Payload |-> Null], [v \in Payload |-> Err1]}

\* The (onLeft, onRight) pairs fold is run with: two different functions, so
\* that the outcome tells which one ran, each function on each side.
FoldPairs ==
    {<<Ident, Rot>>, <<Rot, Ident>>,
     <<[v \in Payload |-> Null], [v \in Payload |-> Err1]>>,
     <<[v \in Payload |-> Err1], [v \in Payload |-> Null]>>}

\* The default values getOrElse is run with.
Defaults == {Zero, FortyTwo, Null}

(* ----------------------------- outcomes ------------------------------- *)

NoOut == [kind |-> "none", ref |-> 0, val |-> "-", name |-> "-"]

RefOut(i) == [kind |-> "ref", ref |-> i, val |-> "-", name |-> "-"]

ValOut(v) == [kind |-> "val", ref |-> 0, val |-> v, name |-> "-"]

Throw(name, v) == [kind |-> "throw", ref |-> 0, val |-> v, name |-> name]

\* The outcome of invoking the caller-supplied function f on v.
Invoke(f, v) == IF f[v] \in Errors THEN Throw("Error", f[v]) ELSE ValOut(f[v])

\* The outcome of invoking the supplier s.
InvokeSupplier(s) == IF s \in Errors THEN Throw("Error", s) ELSE ValOut(s)

\* One recorded invocation of a callback.
Called(cb, arg, out) == [cb |-> cb, arg |-> arg, out |-> out]

\* What a method hands back: the heap after it, its outcome, the invocations.
Ret(h, out, calls) == [heap |-> h, out |-> out, log |-> calls]

(* ------------------------------ objects ------------------------------- *)

NoObj == [cls |-> "none", left |-> "-", right |-> "-", value |-> "-"]

EitherObj(l, r) == [cls |-> "Either", left |-> l, right |-> r, value |-> "-"]

MaybeObj(v) == [cls |-> "Maybe", left |-> "-", right |-> "-", value |-> v]

Refs(h) == 1..Len(h)

(* ------------------------------ Either -------------------------------- *)

MsgBoth == "Either can't have both values defined."

MsgNeither == "Either requires a left or right value to be defined."

isDefined(value) == value # Null /\ value # Undefined

\* left ?? null
Coalesce(v) == IF v = Null \/ v = Undefined THEN Null ELSE v

\* Variant: the both-absent check is missing.
Either_constructor_NoNeitherCheck(h, l, r) ==
    IF isDefined(l) /\ isDefined(r)
    THEN Ret(h, Throw("EitherError", MsgBoth), <<>>)
    ELSE Ret(Append(h, EitherObj(Coalesce(l), Coalesce(r))), RefOut(Len(h) + 1), <<>>)

\* Variant: the both-present check is missing.
Either_constructor_NoBothCheck(h, l, r) ==
    IF ~isDefined(l) /\ ~isDefined(r)
    THEN Ret(h, Throw("EitherError", MsgNeither), <<>>)
    ELSE Ret(Append(h, EitherObj(Coalesce(l), Coalesce(r))), RefOut(Len(h) + 1), <<>>)

\* Variant: each argument is stored on the other side.
Either_constructor_Swapped(h, l, r) ==
    IF isDefined(l) /\ isDefined(r)
    THEN Ret(h, Throw("EitherError", MsgBoth), <<>>)
    ELSE IF ~isDefined(l) /\ ~isDefined(r)
    THEN Ret(h, Throw("EitherError", MsgNeither), <<>>)
    ELSE Ret(Append(h, EitherObj(Coalesce(r), Coalesce(l))), RefOut(Len(h) + 1), <<>>)

Either_constructor(h, l, r) ==
    IF isDefined(l) /\ isDefined(r)
    THEN Ret(h, Throw("EitherError", MsgBoth), <<>>)
    ELSE IF ~isDefined(l) /\ ~isDefined(r)
    THEN Ret(h, Throw("EitherError", MsgNeither), <<>>)
    ELSE Ret(Append(h, EitherObj(Coalesce(l), Coalesce(r))), RefOut(Len(h) + 1), <<>>)

isRight(o) == isDefined(o.right)

isLeft(o) == ~isRight(o)

left(h, value) == Either_constructor(h, value, Null)

\* Variant: the instance is built without the constructor's checks.
right_Unchecked(h, value) ==
    Ret(Append(h, EitherObj(Null, Coalesce(value))), RefOut(Len(h) + 1), <<>>)

right(h, value) == Either_constructor(h, Null, value)

\* The result of a method that invoked one callback (recorded as c) and then
\* built its result with r.
After(c, r) == Ret(r.heap, r.out, <<c>> \o r.log)

\* Variant: the receiver is updated in place and returned.
Either_map_InPlace(h, this, fn) ==
    IF isRight(h[this])
    THEN LET c == Invoke(fn, h[this].right)
         IN  IF c.kind = "throw"
             THEN Ret(h, c, <<Called("fn", h[this].right, c)>>)
             ELSE IF isDefined(c.val)
             THEN Ret([h EXCEPT ![this].right = c.val], RefOut(this),
                      <<Called("fn", h[this].right, c)>>)
             ELSE After(Called("fn", h[this].right, c), right(h, c.val))
    ELSE left(h, h[this].left)

Either_map(h, this, fn) ==
    IF isRight(h[this])
    THEN LET c == Invoke(fn, h[this].right)
         IN  IF c.kind = "throw"
             THEN Ret(h, c, <<Called("fn", h[this].right, c)>>)
             ELSE After(Called("fn", h[this].right, c), right(h, c.val))
    ELSE left(h, h[this].left)

mapLeft(h, this, fn) ==
    IF isRight(h[this])
    THEN right(h, h[this].right)
    ELSE LET c == Invoke(fn, h[this].left)
         IN  IF c.kind = "throw"
             THEN Ret(h, c, <<Called("fn", h[this].left, c)>>)
             ELSE After(Called("fn", h[this].left, c), left(h, c.val))

\* The Either-returning callbacks the runs draw from:
\*   v => right(g(v)),  v => left(g(v)),  v => e  for an instance e built before.
EitherFns(h) ==
    [mk : {"right", "left"}, g : EitherMapFns, ref : {0}]
        \cup [mk : {"existing"}, g : {Ident}, ref : Refs(h)]

\* x => first(x).flatMap(next), for two of the callbacks above.
Then(first, next) == [mk |-> "then", first |-> first, next |-> next]

RECURSIVE InvokeEitherFn(_, _, _)
RECURSIVE Either_flatMap(_, _, _)

\* One invocation of an Either-returning callback; the log of the result
\* holds the callbacks that were invoked inside it.
InvokeEitherFn(h, k, v) ==
    IF k.mk = "then"
    THEN LET r == InvokeEitherFn(h, k.first, v)
         IN  IF r.out.kind = "ref" THEN Either_flatMap(r.heap, r.out.ref, k.next)
             ELSE r
    ELSE IF k.mk = "existing"
    THEN Ret(h, RefOut(k.ref), <<>>)
    ELSE LET c == Invoke(k.g, v)
         IN  IF c.kind = "throw" THEN Ret(h, c, <<>>)
             ELSE IF k.mk = "right" THEN right(h, c.val)
             ELSE left(h, c.val)

\* Variant: fn is invoked whichever side is held.
Either_flatMap_Eager(h, this, fn) ==
    LET v == IF isRight(h[this]) THEN h[this].right ELSE h[this].left
        r == InvokeEitherFn(h, fn, v)
    IN  Ret(r.heap, r.out, <<Called("fn", v, r.out)>>)

\* Variant: fn's result is wrapped again in a new instance.
Either_flatMap_Rewrap(h, this, fn) ==
    IF isRight(h[this])
    THEN LET r == InvokeEitherFn(h, fn, h[this].right)
         IN  IF r.out.kind = "ref"
             THEN Ret(Append(r.heap, r.heap[r.out.ref]), RefOut(Len(r.heap) + 1),
                      <<Called("fn", h[this].right, r.out)>>)
             ELSE Ret(r.heap, r.out, <<Called("fn", h[this].right, r.out)>>)
    ELSE left(h, h[this].left)

Either_flatMap(h, this, fn) ==
    IF isRight(h[this])
    THEN LET r == InvokeEitherFn(h, fn, h[this].right)
         IN  Ret(r.heap, r.out, <<Called("fn", h[this].right, r.out)>> \o r.log)
    ELSE left(h, h[this].left)

\* Variant: the branches are taken the wrong way round.
fold_Swapped(h, this, onLeft, onRight) ==
    IF isLeft(h[this])
    THEN LET c == Invoke(onRight, h[this].left)
         IN  Ret(h, c, <<Called("onRight", h[this].left, c)>>)
    ELSE LET c == Invoke(onLeft, h[this].right)
         IN  Ret(h, c, <<Called("onLeft", h[this].right, c)>>)

fold(h, this, onLeft, onRight) ==
    IF isRight(h[this])
    THEN LET c == Invoke(onRight, h[this].right)
         IN  Ret(h, c, <<Called("onRight", h[this].right, c)>>)
    ELSE LET c == Invoke(onLeft, h[this].left)
         IN  Ret(h, c, <<Called("onLeft", h[this].left, c)>>)

\* Variant: this.right || defaultValue.
Either_getOrElse_Truthy(h, this, defaultValue) ==
    Ret(h, ValOut(IF isRight(h[this]) /\ h[this].right \notin {Zero, Empty, False}
                  THEN h[this].right ELSE defaultValue), <<>>)

Either_getOrElse(h, this, defaultValue) ==
    Ret(h, ValOut(IF isRight(h[this]) THEN h[this].right ELSE defaultValue), <<>>)

Either_getOrThrow(h, this, error) ==
    IF isLeft(h[this])
    THEN Ret(h, Throw("Error", error), <<>>)
    ELSE Ret(h, ValOut(h[this].right), <<>>)

\* Variant: the supplier is invoked before the side is looked at.
Either_getOrElseGet_Eager(h, this, supplier) ==
    LET c == InvokeSupplier(supplier)
    IN  IF isRight(h[this]) /\ c.kind # "throw"
        THEN Ret(h, ValOut(h[this].right), <<Called("supplier", "-", c)>>)
        ELSE Ret(h, c, <<Called("supplier", "-", c)>>)

Either_getOrElseGet(h, this, supplier) ==
    IF isRight(h[this])
    THEN Ret(h, ValOut(h[this].right), <<>>)
    ELSE LET c == InvokeSupplier(supplier)
         IN  Ret(h, c, <<Called("supplier", "-", c)>>)

\* Variant: the side is chosen by the truthiness of this.right.
toString_Truthy(h, this) ==
    IF isRight(h[this]) /\ h[this].right \notin {Zero, Empty, False}
    THEN Ret(h, ValOut(Str("Right(" \o JsString(h[this].right) \o ")")), <<>>)
    ELSE Ret(h, ValOut(Str("Left(" \o JsString(h[this].left) \o ")")), <<>>)

toString(h, this) ==
    IF isRight(h[this])
    THEN Ret(h, ValOut(Str("Right(" \o JsString(h[this].right) \o ")")), <<>>)
    ELSE Ret(h, ValOut(Str("Left(" \o JsString(h[this].left) \o ")")), <<>>)

(* ------------------------------- Maybe -------------------------------- *)

\* constructor(private readonly value: T | null | undefined = null): the
\* default replaces an argument that is undefined (or omitted).
Maybe_constructor(h, value) ==
    Ret(Append(h, MaybeObj(IF value = Undefined THEN Null ELSE value)),
        RefOut(Len(h) + 1), <<>>)

\* Variant: Maybe.just guarantees a present instance by rejecting null and
\* undefined.
just_Strict(h, value) ==
    IF value = Null \/ value = Undefined
    THEN Ret(h, Throw("TypeError", "Maybe.just requires a value."), <<>>)
    ELSE Maybe_constructor(h, value)

just(h, value) == Maybe_constructor(h, value)

nothing(h) == Maybe_constructor(h, Null)

isNothing(o) == o.value = Null \/ o.value = Undefined

isJust(o) == ~isNothing(o)

\* Variant: a falsy result of fn is taken for an absent one.
Maybe_map_Truthy(h, this, fn) ==
    IF isNothing(h[this])
    THEN nothing(h)
    ELSE LET c == Invoke(fn, h[this].value)
         IN  IF c.kind = "throw"
             THEN Ret(h, c, <<Called("fn", h[this].value, c)>>)
             ELSE After(Called("fn", h[this].value, c),
                        IF c.val = Zero THEN nothing(h) ELSE just(h, c.val))

\* Variant: a failure of fn is caught and turned into an absent result.
Maybe_map_Catch(h, this, fn) ==
    IF isNothing(h[this])
    THEN nothing(h)
    ELSE LET c == Invoke(fn, h[this].value)
         IN  IF c.kind = "throw"
             THEN After(Called("fn", h[this].value, c), nothing(h))
             ELSE After(Called("fn", h[this].value, c), just(h, c.val))

Maybe_map(h, this, fn) ==
    IF isNothing(h[this])
    THEN nothing(h)
    ELSE LET c == Invoke(fn, h[this].value)
         IN  IF c.kind = "throw"
             THEN Ret(h, c, <<Called("fn", h[this].value, c)>>)
             ELSE After(Called("fn", h[this].value, c), just(h, c.val))

\* Variant: v ? Maybe.just(v) : Maybe.nothing().
maybe_Truthy(h, v) ==
    IF v \notin {Null, Undefined, Zero, Empty, False} THEN just(h, v) ELSE nothing(h)

maybe(h, v) == IF v # Null /\ v # Undefined THEN just(h, v) ELSE nothing(h)

\* The Maybe-returning callbacks the runs draw from:
\*   v => Maybe.just(g(v)),  v => maybe(g(v)),  v => Maybe.nothing(),
\*   v => m  for an instance m built before.
MaybeFns(h) ==
    [mk : {"just", "maybe"}, g : Fns, ref : {0}]
        \cup [mk : {"nothing"}, g : {Ident}, ref : {0}]
        \cup [mk : {"existing"}, g : {Ident}, ref : Refs(h)]

RECURSIVE InvokeMaybeFn(_, _, _)
RECURSIVE Maybe_flatMap(_, _, _)

\* One invocation of a Maybe-returning callback; the log of the result holds
\* the callbacks that were invoked inside it.
InvokeMaybeFn(h, k, v) ==
    IF k.mk = "then"
    THEN LET r == InvokeMaybeFn(h, k.first, v)
         IN  IF r.out.kind = "ref" THEN Maybe_flatMap(r.heap, r.out.ref, k.next)
             ELSE r
    ELSE IF k.mk = "existing" THEN Ret(h, RefOut(k.ref), <<>>)
    ELSE IF k.mk = "nothing" THEN nothing(h)
    ELSE LET c == Invoke(k.g, v)
         IN  IF c.kind = "throw" THEN Ret(h, c, <<>>)
             ELSE IF k.mk = "just" THEN just(h, c.val)
             ELSE maybe(h, c.val)

\* Variant: fn's result is wrapped again in a new instance.
Maybe_flatMap_Rewrap(h, this, fn) ==
    IF isNothing(h[this])
    THEN nothing(h)
    ELSE LET r == InvokeMaybeFn(h, fn, h[this].value)
         IN  IF r.out.kind = "ref"
             THEN Ret(Append(r.heap, r.heap[r.out.ref]), RefOut(Len(r.heap) + 1),
                      <<Called("fn", h[this].value, r.out)>>)
             ELSE Ret(r.heap, r.out, <<Called("fn", h[this].value, r.out)>>)

Maybe_flatMap(h, this, fn) ==
    IF isNothing(h[this])
    THEN nothing(h)
    ELSE LET r == InvokeMaybeFn(h, fn, h[this].value)
         IN  Ret(r.heap, r.out, <<Called("fn", h[this].value, r.out)>> \o r.log)

Maybe_getOrElse(h, this, value) ==
    Ret(h, ValOut(IF isNothing(h[this]) THEN value ELSE h[this].value), <<>>)

getOrNull(h, this) ==
    Ret(h, ValOut(IF isNothing(h[this]) THEN Null ELSE h[this].value), <<>>)

\* Variant: the stored value is returned as it is.
getOrUndefined_Stored(h, this) == Ret(h, ValOut(h[this].value), <<>>)

getOrUndefined(h, this) ==
    Ret(h, ValOut(IF isNothing(h[this]) THEN Undefined ELSE h[this].value), <<>>)

\* Variant: the error is wrapped in a new one.
Maybe_getOrThrow_Wrapped(h, this, error) ==
    IF isNothing(h[this])
    THEN Ret(h, Throw("Error", Str(JsString(Null))), <<>>)
    ELSE Ret(h, ValOut(h[this].value), <<>>)

Maybe_getOrThrow(h, this, error) ==
    IF isNothing(h[this])
    THEN Ret(h, Throw("Error", error), <<>>)
    ELSE Ret(h, ValOut(h[this].value), <<>>)

Maybe_getOrElseGet(h, this, supplier) ==
    IF isNothing(h[this])
    THEN LET c == InvokeSupplier(supplier)
         IN  Ret(h, c, <<Called("supplier", "-", c)>>)
    ELSE Ret(h, ValOut(h[this].value), <<>>)

(* ------------------------------ actions ------------------------------- *)

NoCall == [op |-> "none", recv |-> 0, self |-> NoObj, a1 |-> "-", a2 |-> "-", n |-> 0]

\* The record of a call: the operation, the receiver (its reference and its
\* fields when the call started), the plain arguments and the number of
\* instances that existed when the call started.
Call(op, this, a1, a2) ==
    [op |-> op, recv |-> this, self |-> IF this = 0 THEN NoObj ELSE heap[this],
     a1 |-> a1, a2 |-> a2, n |-> Len(heap)]

Apply(c, r) ==
    /\ heap' = r.heap
    /\ res' = r.out
    /\ log' = r.log
    /\ last' = c

Finish(c, r) == Apply(c, r) /\ UNCHANGED law

Room == Len(heap) < MaxObjs

EitherRefs == {i \in Refs(heap) : heap[i].cls = "Either"}

NewEither ==
    /\ Room
    /\ \E l \in EitherVal, r \in EitherVal :
          Finish(Call("new Either", 0, l, r), Either_constructor(heap, l, r))

CallLeft ==
    /\ Room
    /\ \E v \in EitherVal : Finish(Call("left", 0, v, "-"), left(heap, v))

CallRight ==
    /\ Room
    /\ \E v \in EitherVal : Finish(Call("right", 0, v, "-"), right(heap, v))

CallEitherMap ==
    /\ Room
    /\ \E this \in EitherRefs, fn \in EitherMapFns :
          Finish(Call("map", this, "-", "-"), Either_map(heap, this, fn))

CallMapLeft ==
    /\ Room
    /\ \E this \in EitherRefs, fn \in EitherMapFns :
          Finish(Call("mapLeft", this, "-", "-"), mapLeft(heap, this, fn))

CallEitherFlatMap ==
    /\ Room
    /\ \E this \in EitherRefs :
          \E fn \in EitherFns(heap) :
             Finish(Call("flatMap", this, "-", "-"), Either_flatMap(heap, this, fn))

CallFold ==
    /\ Room
    /\ \E this \in EitherRefs, fns \in FoldPairs :
          Finish(Call("fold", this, "-", "-"), fold(heap, this, fns[1], fns[2]))

CallIsRight ==
    /\ Room
    /\ \E this \in EitherRefs :
          Finish(Call("isRight", this, "-", "-"),
                 Ret(heap, ValOut(Bool(isRight(heap[this]))), <<>>))

CallIsLeft ==
    /\ Room
    /\ \E this \in EitherRefs :
          Finish(Call("isLeft", this, "-", "-"),
                 Ret(heap, ValOut(Bool(isLeft(heap[this]))), <<>>))

CallEitherGetOrElse ==
    /\ Room
    /\ \E this \in EitherRefs, d \in Defaults :
          Finish(Call("getOrElse", this, d, "-"), Either_getOrElse(heap, this, d))

CallEitherGetOrThrow ==
    /\ Room
    /\ \E this \in EitherRefs, e \in Errors :
          Finish(Call("getOrThrow", this, e, "-"), Either_getOrThrow(heap, this, e))

CallEitherGetOrElseGet ==
    /\ Room
    /\ \E this \in EitherRefs, s \in Suppliers :
          Finish(Call("getOrElseGet", this, "-", "-"), Either_getOrElseGet(heap, this, s))

CallToString ==
    /\ Room
    /\ \E this \in EitherRefs :
          Finish(Call("toString", this, "-", "-"), toString(heap, this))


MaybeRefs == {i \in Refs(heap) : heap[i].cls = "Maybe"}

NewMaybe ==
    /\ Room
    /\ \E v \in Val : Finish(Call("new Maybe", 0, v, "-"), Maybe_constructor(heap, v))

CallJust ==
    /\ Room
    /\ \E v \in Val : Finish(Call("just", 0, v, "-"), just(heap, v))

CallNothing ==
    /\ Room
    /\ Finish(Call("nothing", 0, "-", "-"), nothing(heap))

CallMaybe ==
    /\ Room
    /\ \E v \in Val : Finish(Call("maybe", 0, v, "-"), maybe(heap, v))

CallMaybeMap ==
    /\ Room
    /\ \E this \in MaybeRefs, fn \in Fns :
          Finish(Call("map", this, "-", "-"), Maybe_map(heap, this, fn))

CallMaybeFlatMap ==
    /\ Room
    /\ \E this \in MaybeRefs :
          \E fn \in MaybeFns(heap) :
             Finish(Call("flatMap", this, "-", "-"), Maybe_flatMap(heap, this, fn))

CallIsJust ==
    /\ Room
    /\ \E this \in MaybeRefs :
          Finish(Call("isJust", this, "-", "-"),
                 Ret(heap, ValOut(Bool(isJust(heap[this]))), <<>>))

CallMaybeGetOrElse ==
    /\ Room
    /\ \E this \in MaybeRefs, d \in Defaults :
          Finish(Call("getOrElse", this, d, "-"), Maybe_getOrElse(heap, this, d))

CallGetOrNull ==
    /\ Room
    /\ \E this \in MaybeRefs :
          Finish(Call("getOrNull", this, "-", "-"), getOrNull(heap, this))

CallGetOrUndefined ==
    /\ Room
    /\ \E this \in MaybeRefs :
          Finish(Call("getOrUndefined", this, "-", "-"), getOrUndefined(heap, this))

CallMaybeGetOrThrow ==
    /\ Room
    /\ \E this \in MaybeRefs, e \in Errors :
          Finish(Call("getOrThrow", this, e, "-"), Maybe_getOrThrow(heap, this, e))

CallMaybeGetOrElseGet ==
    /\ Room
    /\ \E this \in MaybeRefs, s \in Suppliers :
          Finish(Call("getOrElseGet", this, "-", "-"), Maybe_getOrElseGet(heap, this, s))


NoLaw ==
    [v |-> "-", f |-> VIdent, g |-> VIdent, pc |-> "idle", m |-> 0, mid |-> 0,
     lhs |-> 0, rhs |-> 0]

Init ==
    /\ heap = <<>>
    /\ last = NoCall
    /\ res = NoOut
    /\ log = <<>>
    /\ law = NoLaw

Next ==
    \/ NewEither
    \/ CallLeft
    \/ CallRight
    \/ CallEitherMap
    \/ CallMapLeft
    \/ CallEitherFlatMap
    \/ CallFold
    \/ CallIsRight
    \/ CallIsLeft
    \/ CallEitherGetOrElse
    \/ CallEitherGetOrThrow
    \/ CallEitherGetOrElseGet
    \/ CallToString

Spec == Init /\ [][Next]_vars

NextMaybe ==
    \/ NewMaybe
    \/ CallJust
    \/ CallNothing
    \/ CallMaybe
    \/ CallMaybeMap
    \/ CallMaybeFlatMap
    \/ CallIsJust
    \/ CallMaybeGetOrElse
    \/ CallGetOrNull
    \/ CallGetOrUndefined
    \/ CallMaybeGetOrThrow
    \/ CallMaybeGetOrElseGet

SpecMaybe == Init /\ [][NextMaybe]_vars

\* Both types.  They share no state and no operation of one takes or returns
\* an instance of the other, so a run exercises one of them.
NextBoth ==
    \/ MaybeRefs = {} /\ Next
    \/ EitherRefs = {} /\ NextMaybe

SpecBoth == Init /\ [][NextBoth]_vars

(* Maybe.just(v).map(f).map(g)  and  Maybe.just(v).map(x => g(f(x))),        *)
(* evaluated one call after the other for a payload v and pure f, g.       *)

InitFunctor ==
    /\ heap = <<>>
    /\ last = NoCall
    /\ res = NoOut
    /\ log = <<>>
    /\ \E v \in Payload, f \in PureFns, g \in PureFns :
          law = [v |-> v, f |-> f, g |-> g, pc |-> "start", m |-> 0, mid |-> 0,
                 lhs |-> 0, rhs |-> 0]

\* m = Maybe.just(v)
LawJust ==
    /\ law.pc = "start"
    /\ LET r == just(heap, law.v)
       IN  /\ Apply(Call("just", 0, law.v, "-"), r)
           /\ law' = [law EXCEPT !.pc = "built", !.m = r.out.ref]

\* mid = m.map(f)
LawMapF ==
    /\ law.pc = "built"
    /\ LET r == Maybe_map(heap, law.m, law.f)
       IN  /\ Apply(Call("map", law.m, "-", "-"), r)
           /\ law' = [law EXCEPT !.pc = "mappedF", !.mid = r.out.ref]

\* lhs = mid.map(g)
LawMapG ==
    /\ law.pc = "mappedF"
    /\ LET r == Maybe_map(heap, law.mid, law.g)
       IN  /\ Apply(Call("map", law.mid, "-", "-"), r)
           /\ law' = [law EXCEPT !.pc = "mappedG", !.lhs = r.out.ref]

\* rhs = Maybe.just(v).map(x => g(f(x)))
LawMapComposed ==
    /\ law.pc = "mappedG"
    /\ LET j == just(heap, law.v)
           r == Maybe_map(j.heap, j.out.ref, Compose(law.f, law.g))
       IN  /\ heap' = r.heap
           /\ res' = r.out
           /\ log' = r.log
           /\ last' = [op |-> "map", recv |-> j.out.ref, self |-> j.heap[j.out.ref],
                       a1 |-> "-", a2 |-> "-", n |-> Len(j.heap)]
           /\ law' = [law EXCEPT !.pc = "done", !.rhs = r.out.ref]

NextFunctor ==
    \/ LawJust
    \/ LawMapF
    \/ LawMapG
    \/ LawMapComposed

SpecFunctor == InitFunctor /\ [][NextFunctor]_vars

(* m.flatMap(f).flatMap(g)  and  m.flatMap(x => f(x).flatMap(g)),            *)
(* evaluated one call after the other for an instance m of either class    *)
(* and pure callbacks f, g that return an instance of that class.          *)

\* The callbacks of MaybeFns that return a Maybe whatever payload they get.
MaybeKleisli == {k \in MaybeFns(<<>>) : \A v \in Payload : k.g[v] \notin Errors}

\* The callbacks of EitherFns that return an Either whatever payload they
\* get: right() and left() are handed a payload.
EitherKleisli ==
    {k \in EitherFns(<<>>) : \A v \in EitherVal \cap Payload : k.g[v] \in Payload}

InitAssoc ==
    /\ heap = <<>>
    /\ last = NoCall
    /\ res = NoOut
    /\ log = <<>>
    /\ \/ \E v \in Val, f \in MaybeKleisli, g \in MaybeKleisli :
             law = [cls |-> "Maybe", mk |-> "maybe", v |-> v, f |-> f, g |-> g,
                    pc |-> "start", m |-> 0, mid |-> 0, lhs |-> 0, rhs |-> 0,
                    logF |-> <<>>, logG |-> <<>>, logNested |-> <<>>]
       \/ \E mk \in {"left", "right"}, v \in EitherVal \cap Payload,
                f \in EitherKleisli, g \in EitherKleisli :
             law = [cls |-> "Either", mk |-> mk, v |-> v, f |-> f, g |-> g,
                    pc |-> "start", m |-> 0, mid |-> 0, lhs |-> 0, rhs |-> 0,
                    logF |-> <<>>, logG |-> <<>>, logNested |-> <<>>]

\* this.flatMap(fn) of the class the chain is made of.
FlatMapOf(cls, h, this, fn) ==
    IF cls = "Maybe" THEN Maybe_flatMap(h, this, fn) ELSE Either_flatMap(h, this, fn)

\* m = maybe(v), left(v) or right(v)
AssocBuild ==
    /\ law.pc = "start"
    /\ LET r == CASE law.mk = "maybe" -> maybe(heap, law.v)
                  [] law.mk = "left" -> left(heap, law.v)
                  [] OTHER -> right(heap, law.v)
       IN  /\ Apply(Call(law.mk, 0, law.v, "-"), r)
           /\ law' = [law EXCEPT !.pc = "built", !.m = r.out.ref]

\* mid = m.flatMap(f)
AssocFlatMapF ==
    /\ law.pc = "built"
    /\ LET r == FlatMapOf(law.cls, heap, law.m, law.f)
       IN  /\ Apply(Call("flatMap", law.m, "-", "-"), r)
           /\ law' = [law EXCEPT !.pc = "boundF", !.mid = r.out.ref, !.logF = r.log]

\* lhs = mid.flatMap(g)
AssocFlatMapG ==
    /\ law.pc = "boundF"
    /\ LET r == FlatMapOf(law.cls, heap, law.mid, law.g)
       IN  /\ Apply(Call("flatMap", law.mid, "-", "-"), r)
           /\ law' = [law EXCEPT !.pc = "boundG", !.lhs = r.out.ref, !.logG = r.log]

\* rhs = m.flatMap(x => f(x).flatMap(g))
AssocFlatMapNested ==
    /\ law.pc = "boundG"
    /\ LET r == FlatMapOf(law.cls, heap, law.m, Then(law.f, law.g))
       IN  /\ Apply(Call("flatMap", law.m, "-", "-"), r)
           /\ law' = [law EXCEPT !.pc = "done", !.rhs = r.out.ref,
                                 !.logNested = r.log]

NextAssoc ==
    \/ AssocBuild
    \/ AssocFlatMapF
    \/ AssocFlatMapG
    \/ AssocFlatMapNested

SpecAssoc == InitAssoc /\ [][NextAssoc]_vars

(* ------------------------------ properties ---------------------------- *)

\* A value is present when it is neither null nor undefined.
Present(v) == v \notin {Null, Undefined}

OnEither(op) == last.op = op /\ last.self.cls = "Either"

OnMaybe(op) == last.op = op /\ last.self.cls = "Maybe"

RightHolding(o) == o.cls = "Either" /\ Present(o.right) /\ ~Present(o.left)

LeftHolding(o) == o.cls = "Either" /\ Present(o.left) /\ ~Present(o.right)

\* The last call invoked exactly one callback, named cb, on the value v.
InvokedOnce(cb, v) == Len(log) = 1 /\ log[1].cb = cb /\ log[1].arg = v

\* C1: new Either(l, r) succeeds iff exactly one of l, r is present; with both
\* present it throws an EitherError with the message "Either can't have both
\* values defined.", with both absent an EitherError with another message;
\* a failing construction produces no instance.
C1_ConstructorValidates ==
    last.op = "new Either" =>
        /\ (res.kind = "ref") <=> (Present(last.a1) # Present(last.a2))
        /\ res.kind = "ref" => Len(heap) = last.n + 1 /\ res.ref = Len(heap)
        /\ (Present(last.a1) /\ Present(last.a2)) =>
              res = Throw("EitherError", MsgBoth) /\ Len(heap) = last.n
        /\ (~Present(last.a1) /\ ~Present(last.a2)) =>
              /\ res.kind = "throw"
              /\ res.name = "EitherError"
              /\ res.val # MsgBoth
              /\ Len(heap) = last.n

C1_Witness ==
    /\ last.op = "new Either"
    /\ ~Present(last.a1)
    /\ ~Present(last.a2)
    /\ res.kind = "throw"
    /\ last.n > 0

\* C2: every Either instance, however it was produced (raw constructor,
\* left(), right(), map, mapLeft, flatMap and their chains), has exactly one
\* side present, and exactly one of isLeft() / isRight() is true, isRight()
\* being true iff the right side is present.
C2_ExactlyOneSide ==
    \A i \in Refs(heap) :
        heap[i].cls = "Either" =>
            /\ Present(heap[i].left) # Present(heap[i].right)
            /\ isLeft(heap[i]) # isRight(heap[i])
            /\ isRight(heap[i]) <=> Present(heap[i].right)
            /\ isLeft(heap[i]) <=> Present(heap[i].left)

C2_Witness ==
    /\ Len(heap) >= 3
    /\ last.op = "mapLeft"
    /\ res.kind = "ref"
    /\ LeftHolding(heap[res.ref])
    /\ \E i \in Refs(heap) : RightHolding(heap[i])

\* C3: for every argument v, left(v) returns a left-holding instance holding
\* v and right(v) a right-holding instance holding v; neither ever fails with
\* a construction error.
C3_NamedConstructorsTotal ==
    /\ last.op = "left" =>
          res.kind = "ref" /\ heap[res.ref].cls = "Either" /\ heap[res.ref].left = last.a1
    /\ last.op = "right" =>
          res.kind = "ref" /\ heap[res.ref].cls = "Either" /\ heap[res.ref].right = last.a1

\* C4: on a right-holding Either holding v, map(fn) invokes fn exactly once on
\* v and, whatever value fn returns (null and undefined included), returns a
\* right-holding Either holding that value.
C4_MapRight ==
    (OnEither("map") /\ RightHolding(last.self)) =>
        /\ InvokedOnce("fn", last.self.right)
        /\ log[1].out.kind = "val" =>
              /\ res.kind = "ref"
              /\ heap[res.ref].cls = "Either"
              /\ isRight(heap[res.ref])
              /\ heap[res.ref].right = log[1].out.val

\* C5: on a left-holding Either holding l, map(fn) and flatMap(fn) return a
\* left-holding Either holding l, and fn is never invoked.
C5_LeftPassesThrough ==
    ((OnEither("map") \/ OnEither("flatMap")) /\ LeftHolding(last.self)) =>
        /\ log = <<>>
        /\ res.kind = "ref"
        /\ LeftHolding(heap[res.ref])
        /\ heap[res.ref].left = last.self.left

C5_Witness ==
    /\ OnEither("flatMap")
    /\ LeftHolding(last.self)
    /\ res.kind = "ref"
    /\ last.self.left = Zero

\* C6: mapLeft mirrors map: on a left-holding Either holding l it invokes fn
\* exactly once on l and returns a left-holding Either holding fn(l); on a
\* right-holding Either holding v it returns a right-holding Either holding v
\* and never invokes fn.
C6_MapLeftSymmetric ==
    /\ (OnEither("mapLeft") /\ LeftHolding(last.self)) =>
          /\ InvokedOnce("fn", last.self.left)
          /\ log[1].out.kind = "val" =>
                /\ res.kind = "ref"
                /\ heap[res.ref].cls = "Either"
                /\ isLeft(heap[res.ref])
                /\ heap[res.ref].left = log[1].out.val
    /\ (OnEither("mapLeft") /\ RightHolding(last.self)) =>
          /\ log = <<>>
          /\ res.kind = "ref"
          /\ RightHolding(heap[res.ref])
          /\ heap[res.ref].right = last.self.right

\* C7: on a right-holding Either holding v, flatMap(fn) invokes fn exactly
\* once on v and returns exactly what fn returned (the same instance, not a
\* wrapper), so the result holds the side fn's result holds.
C7_FlatMapReturnsFnResult ==
    (OnEither("flatMap") /\ RightHolding(last.self)) =>
        /\ InvokedOnce("fn", last.self.right)
        /\ res = log[1].out
        /\ res.kind = "ref" => heap[res.ref].cls = "Either" /\ Len(heap) <= last.n + 1

C7_Witness ==
    /\ OnEither("flatMap")
    /\ RightHolding(last.self)
    /\ res.kind = "ref"
    /\ LeftHolding(heap[res.ref])

\* C8: fold(onLeft, onRight) invokes exactly one branch exactly once, onRight
\* on the right value of a right-holding Either and onLeft on the left value
\* of a left-holding one, and its outcome is that branch's outcome.
C8_FoldOneBranch ==
    OnEither("fold") =>
        /\ Len(log) = 1
        /\ RightHolding(last.self) => InvokedOnce("onRight", last.self.right)
        /\ LeftHolding(last.self) => InvokedOnce("onLeft", last.self.left)
        /\ res = log[1].out
        /\ Len(heap) = last.n

C8_Witness ==
    /\ OnEither("fold")
    /\ LeftHolding(last.self)
    /\ res.kind = "val"
    /\ res.val = last.self.left

\* C9: Maybe.map(fn) on a present Maybe holding v invokes fn exactly once on v
\* and returns a Maybe that is present with value fn(v) when fn(v) is neither
\* null nor undefined and absent otherwise; on an absent Maybe it returns an
\* absent Maybe without invoking fn.
C9_MaybeMap ==
    /\ (OnMaybe("map") /\ Present(last.self.value)) =>
          /\ InvokedOnce("fn", last.self.value)
          /\ log[1].out.kind = "val" =>
                /\ res.kind = "ref"
                /\ heap[res.ref].cls = "Maybe"
                /\ isJust(heap[res.ref]) <=> Present(log[1].out.val)
                /\ Present(log[1].out.val) => heap[res.ref].value = log[1].out.val
    /\ (OnMaybe("map") /\ ~Present(last.self.value)) =>
          /\ log = <<>>
          /\ res.kind = "ref"
          /\ heap[res.ref].cls = "Maybe"
          /\ ~isJust(heap[res.ref])

C9_Witness ==
    /\ OnMaybe("map")
    /\ Present(last.self.value)
    /\ Len(log) = 1
    /\ log[1].out = ValOut(Zero)
    /\ res.kind = "ref"
    /\ heap[res.ref].value = Zero

\* C10: Maybe.flatMap(fn) on a present Maybe holding v invokes fn once on v and
\* returns exactly what fn returned (not wrapped again); on an absent Maybe
\* it returns an absent Maybe without invoking fn.
C10_MaybeFlatMap ==
    /\ (OnMaybe("flatMap") /\ Present(last.self.value)) =>
          /\ InvokedOnce("fn", last.self.value)
          /\ res = log[1].out
          /\ res.kind = "ref" => heap[res.ref].cls = "Maybe" /\ Len(heap) <= last.n + 1
    /\ (OnMaybe("flatMap") /\ ~Present(last.self.value)) =>
          /\ log = <<>>
          /\ res.kind = "ref"
          /\ heap[res.ref].cls = "Maybe"
          /\ ~isJust(heap[res.ref])

C10_Witness ==
    /\ OnMaybe("flatMap")
    /\ Present(last.self.value)
    /\ res.kind = "ref"
    /\ res.ref <= last.n
    /\ ~isJust(heap[res.ref])

\* Two Maybe instances that no accessor tells apart: the same isJust() and,
\* when present, the same contained value.
SameMaybe(a, b) ==
    /\ Present(a.value) <=> Present(b.value)
    /\ Present(a.value) => a.value = b.value

\* C11 as stated: for every payload v and all pure f, g (whose results may be
\* null or undefined), Maybe.just(v).map(f).map(g) and
\* Maybe.just(v).map(x => g(f(x))) have the same isJust() and the same value.
C11_FunctorLaw ==
    law.pc = "done" => SameMaybe(heap[law.lhs], heap[law.rhs])

\* C11 amended: the two sides agree whenever f(v) is neither null nor
\* undefined (g's result may be either).
C11_FunctorLawPresentF ==
    (law.pc = "done" /\ Present(law.f[law.v])) =>
        SameMaybe(heap[law.lhs], heap[law.rhs])

C11_Witness ==
    /\ law.pc = "done"
    /\ Present(law.f[law.v])
    /\ law.f[law.v] # law.v
    /\ ~Present(law.g[law.f[law.v]])
    /\ ~isJust(heap[law.lhs])
    /\ ~isJust(heap[law.rhs])

\* C12: maybe(v) and Maybe.just(v) are present iff v is neither null nor
\* undefined (the two are treated alike); a falsy payload (0, "", false)
\* gives a present Maybe, and the accessors return that payload.
C12_PresenceBySentinelsOnly ==
    /\ last.op \in {"maybe", "just"} =>
          /\ res.kind = "ref"
          /\ heap[res.ref].cls = "Maybe"
          /\ isJust(heap[res.ref]) <=> last.a1 \notin {Null, Undefined}
          /\ last.a1 \notin {Null, Undefined} => heap[res.ref].value = last.a1
    /\ (last.op \in {"getOrElse", "getOrNull", "getOrUndefined"}
           /\ last.self.cls = "Maybe" /\ last.self.value \in {Zero, Empty, False}) =>
          res = ValOut(last.self.value)

C12_Witness ==
    /\ last.op = "maybe"
    /\ last.a1 = False
    /\ res.kind = "ref"
    /\ isJust(heap[res.ref])
    /\ \E i \in Refs(heap) : heap[i] = MaybeObj(Empty)

\* C13: on a present Maybe holding v, isJust() is true and getOrElse(d),
\* getOrNull(), getOrUndefined() return v; on an absent Maybe isJust() is
\* false, getOrElse(d) returns d, getOrNull() null, getOrUndefined() undefined.
C13_MaybeAccessors ==
    /\ OnMaybe("isJust") => res = ValOut(Bool(Present(last.self.value)))
    /\ OnMaybe("getOrElse") =>
          res = ValOut(IF Present(last.self.value) THEN last.self.value ELSE last.a1)
    /\ OnMaybe("getOrNull") =>
          res = ValOut(IF Present(last.self.value) THEN last.self.value ELSE Null)
    /\ OnMaybe("getOrUndefined") =>
          res = ValOut(IF Present(last.self.value) THEN last.self.value ELSE Undefined)

C13_Witness ==
    /\ OnMaybe("getOrUndefined")
    /\ ~Present(last.self.value)
    /\ res = ValOut(Undefined)

\* The value the extractors of the last call's receiver work on: the value of
\* a Maybe, the right side of an Either.
Held == IF last.self.cls = "Maybe" THEN last.self.value ELSE last.self.right

\* C14: getOrThrow(err) on an absent Maybe or a left-holding Either throws
\* err itself; on a present Maybe or a right-holding Either it returns the
\* held value and throws nothing.
C14_GetOrThrow ==
    (OnMaybe("getOrThrow") \/ OnEither("getOrThrow")) =>
        /\ ~Present(Held) => res = Throw("Error", last.a1)
        /\ Present(Held) => res = ValOut(Held)
        /\ log = <<>>

C14_Witness ==
    /\ OnEither("getOrThrow")
    /\ LeftHolding(last.self)
    /\ res.kind = "throw"
    /\ res.val = Err2

\* C15: on a right-holding Either holding v, getOrElse(d), getOrElseGet(s)
\* and getOrThrow(e) return v; on a left-holding Either getOrElse(d) returns
\* d and getOrElseGet(s) returns s(), whatever the left value.
C15_EitherExtractors ==
    /\ (last.op \in {"getOrElse", "getOrElseGet", "getOrThrow"}
           /\ RightHolding(last.self)) => res = ValOut(last.self.right)
    /\ (OnEither("getOrElse") /\ LeftHolding(last.self)) => res = ValOut(last.a1)
    /\ (OnEither("getOrElseGet") /\ LeftHolding(last.self)) =>
          /\ Len(log) = 1
          /\ log[1].cb = "supplier"
          /\ res = log[1].out

C15_Witness ==
    /\ OnEither("getOrElse")
    /\ last.self.right = Zero
    /\ last.a1 = FortyTwo
    /\ res = ValOut(Zero)

\* C16: getOrElseGet(supplier) invokes the supplier exactly once, and returns
\* its result, when the Maybe is absent / the Either left-holding; otherwise
\* the supplier is never invoked and the held value is returned.
C16_GetOrElseGetLazy ==
    (OnMaybe("getOrElseGet") \/ OnEither("getOrElseGet")) =>
        /\ ~Present(Held) => Len(log) = 1 /\ log[1].cb = "supplier" /\ res = log[1].out
        /\ Present(Held) => log = <<>> /\ res = ValOut(Held)

C16_Witness ==
    /\ OnMaybe("getOrElseGet")
    /\ ~Present(last.self.value)
    /\ Len(log) = 1
    /\ res = ValOut(Zero)

\* C17: a failure raised inside a caller-supplied callback is the outcome of
\* the operation that invoked it: the same failure value, no result, no
\* further invocation.
C17_CallbackFailurePropagates ==
    \A i \in 1..Len(log) :
        log[i].out.kind = "throw" =>
            /\ res = log[i].out
            /\ i = Len(log)
            /\ Len(heap) = last.n

C17_Witness ==
    /\ OnEither("mapLeft")
    /\ Len(log) = 1
    /\ log[1].out = Throw("Error", Err2)
    /\ res = Throw("Error", Err2)

\* C18: no operation changes an instance that exists: every step leaves the
\* stored fields of every instance as they were, and only adds instances.
C18_Immutable ==
    [][/\ Len(heap') >= Len(heap)
       /\ \A i \in Refs(heap) : heap'[i] = heap[i]]_vars

C18_Witness ==
    /\ OnEither("map")
    /\ RightHolding(last.self)
    /\ res.kind = "ref"
    /\ res.ref # last.recv
    /\ heap[res.ref] # last.self
    /\ heap[last.recv] = last.self

\* C19: when new Either(l, r) succeeds, the result holds the present argument
\* on its own side, whether the other argument is null or undefined.
C19_SideOfPresentArgument ==
    (last.op = "new Either" /\ res.kind = "ref") =>
        /\ Present(last.a1) =>
              LeftHolding(heap[res.ref]) /\ heap[res.ref].left = last.a1
        /\ Present(last.a2) =>
              RightHolding(heap[res.ref]) /\ heap[res.ref].right = last.a2

C19_Witness ==
    /\ last.op = "new Either"
    /\ last.a1 = Undefined
    /\ last.a2 = Zero
    /\ res.kind = "ref"
    /\ RightHolding(heap[res.ref])

\* C20: toString() is "Right(" + String(right) + ")" on a right-holding
\* Either and "Left(" + String(left) + ")" on a left-holding one; the absent
\* side is never rendered.
C20_ToString ==
    OnEither("toString") =>
        /\ RightHolding(last.self) =>
              res = ValOut(Str("Right(" \o JsString(last.self.right) \o ")"))
        /\ LeftHolding(last.self) =>
              res = ValOut(Str("Left(" \o JsString(last.self.left) \o ")"))
        /\ last.self = EitherObj(Null, FortyTwo) => res.val = "str:Right(42)"
        /\ last.self = EitherObj(Null, Zero) => res.val = "str:Right(0)"
        /\ last.self = EitherObj(StrE, Null) => res.val = "str:Left(e)"

C20_Witness ==
    /\ OnEither("toString")
    /\ last.self.right = Zero
    /\ res = ValOut("str:Right(0)")

Seen(r) == IF r.out.kind = "ref" THEN r.heap[r.out.ref] ELSE r.out

\* Everything the operations of Maybe show of the instance this of heap h,
\* for every argument the runs draw from.
Observations(h, this) ==
    [isJust |-> isJust(h[this]),
     map |-> [fn \in Fns |->
                 LET r == Maybe_map(h, this, fn) IN <<Seen(r), r.log>>],
     flatMap |-> [fn \in MaybeFns(<<>>) |->
                 LET r == Maybe_flatMap(h, this, fn) IN <<Seen(r), r.log>>],
     getOrElse |-> [d \in Defaults |-> Maybe_getOrElse(h, this, d).out],
     getOrNull |-> getOrNull(h, this).out,
     getOrUndefined |-> getOrUndefined(h, this).out,
     getOrThrow |-> [e \in Errors |-> Maybe_getOrThrow(h, this, e).out],
     getOrElseGet |-> [s \in Suppliers |->
                 LET r == Maybe_getOrElseGet(h, this, s) IN <<r.out, r.log>>]]

SameEither(a, b) ==
    /\ RightHolding(a) <=> RightHolding(b)
    /\ LeftHolding(a) <=> LeftHolding(b)
    /\ RightHolding(a) => a.right = b.right
    /\ LeftHolding(a) => a.left = b.left

\* An instance on which flatMap invokes nothing: an absent Maybe or a
\* left-holding Either.
Stopped(o) == IF o.cls = "Maybe" THEN ~Present(o.value) ELSE LeftHolding(o)

\* C23: for every Maybe (resp. Either) m and all pure f, g returning a Maybe
\* (resp. Either), m.flatMap(f).flatMap(g) and m.flatMap(x => f(x).flatMap(g))
\* have the same present/absent (Left/Right) state and the same held value;
\* when m is absent / Left neither f nor g is invoked in either chain, and
\* when f's result is absent / Left g is not invoked in either chain.
C23_FlatMapAssociative ==
    law.pc = "done" =>
        /\ IF law.cls = "Maybe"
           THEN SameMaybe(heap[law.lhs], heap[law.rhs])
           ELSE SameEither(heap[law.lhs], heap[law.rhs])
        /\ IF Stopped(heap[law.m])
           THEN law.logF = <<>> /\ law.logG = <<>> /\ law.logNested = <<>>
           ELSE /\ Len(law.logF) = 1
                /\ Stopped(heap[law.mid]) =>
                      law.logG = <<>> /\ Len(law.logNested) = 1
                /\ ~Stopped(heap[law.mid]) =>
                      Len(law.logG) = 1 /\ Len(law.logNested) = 2

C23_Witness ==
    /\ law.pc = "done"
    /\ law.cls = "Either"
    /\ RightHolding(heap[law.m])
    /\ LeftHolding(heap[law.mid])
    /\ law.logG = <<>>
    /\ Len(law.logNested) = 1
    /\ LeftHolding(heap[law.rhs])
    /\ heap[law.rhs].left = heap[law.lhs].left
    /\ law.rhs # law.lhs

====
